---- MODULE Spec2Model ----
(***************************************************************************)
(* A model of src/analyser.py: the structural parser                       *)
(* (analyze_python_file), the tree aggregator (analyze_directory), the two *)
(* renderers (print_structure, generate_dot) and the top-level script.     *)
(*                                                                         *)
(* Python strings are sequences of one-character strings, so that          *)
(* str.replace, str.endswith, concatenation and equality of strings are    *)
(* computed and not assumed.  A Python dict is a sequence of <<key, value>> *)
(* pairs in insertion order with unique keys.                              *)
(*                                                                         *)
(* A source text is a sequence of lines, one statement per line, each with *)
(* its indentation depth; ast.parse builds the statement tree from the     *)
(* indentation, and ast.walk visits it breadth-first as the library does.  *)
(***************************************************************************)
EXTENDS Integers, Sequences, FiniteSets, TLC

VARIABLES
    argv,              \* the command line: directory, --exclude-imports, --output
    walk,              \* what os.walk yields: the files of the tree, in discovery order
    pc,                \* position of the control flow
    args,              \* the module-level args namespace (parse_args' result)
    idx,               \* index in walk of the next file analyze_directory looks at
    module_structure,  \* the aggregate model: dict rel_path -> unit
    stdout,            \* the lines printed so far
    dot_file,          \* content of <directory>/structure.dot, NoFile while unwritten
    opened,            \* number of open() calls on source files so far
    text,              \* parser harness: the source text handed to analyze_python_file
    unit,              \* parser harness: what analyze_python_file returned
    printed,           \* renderer harness: the outputs of the print_structure calls
    dotted             \* renderer harness: the outputs of the generate_dot calls

vars == <<argv, walk, pc, args, idx, module_structure, stdout, dot_file, opened,
          text, unit, printed, dotted>>

-----------------------------------------------------------------------------
(* Bounds of the model *)

MaxLines == 4      \* lines of a source text in the parser harness
MaxDepth == 2      \* deepest indentation of a line in the parser harness
MaxFiles == 3      \* files os.walk yields in a run of the script
MaxFuncs == 1      \* entries of a unit's functions list in the renderer harness
MaxMethods == 1    \* entries of a class's method list in the renderer harness
MaxCalls == 2      \* calls of each renderer in the renderer harness

-----------------------------------------------------------------------------
(* Strings and dicts *)

Range(s) == {s[i] : i \in 1..Len(s)}

RECURSIVE SeqsUpTo(_, _)
SeqsUpTo(S, n) ==
    IF n = 0 THEN {<<>>}
    ELSE LET shorter == SeqsUpTo(S, n - 1)
         IN  shorter \cup {Append(s, x) : s \in {t \in shorter : Len(t) = n - 1}, x \in S}

\* str.replace(old, new) for one-character old and new
Replace(s, old, new) == [i \in 1..Len(s) |-> IF s[i] = old THEN new ELSE s[i]]

\* str.endswith(suffix)
EndsWith(s, suffix) ==
    /\ Len(s) >= Len(suffix)
    /\ SubSeq(s, Len(s) - Len(suffix) + 1, Len(s)) = suffix

\* sep.join(parts)
RECURSIVE Join(_, _)
Join(parts, sep) ==
    IF parts = <<>> THEN <<>>
    ELSE IF Len(parts) = 1 THEN parts[1]
    ELSE parts[1] \o sep \o Join(Tail(parts), sep)

DictKeys(d) == {d[i][1] : i \in 1..Len(d)}

DictGet(d, k) == d[CHOOSE i \in 1..Len(d) : d[i][1] = k][2]

\* d[k] = v: a new key goes last, an existing key keeps its place and takes the value
DictSet(d, k, v) ==
    IF k \in DictKeys(d)
    THEN [i \in 1..Len(d) |-> IF d[i][1] = k THEN <<k, v>> ELSE d[i]]
    ELSE Append(d, <<k, v>>)

-----------------------------------------------------------------------------
(* Source texts *)

NameOs == <<"o", "s">>
NameSys == <<"s", "y", "s">>
NameX == <<"x">>
NameY == <<"y">>
NameM1 == <<"m", "1">>
NameM2 == <<"m", "2">>
NameC == <<"C">>

Stmt(kind, name, module, names) ==
    [kind |-> kind, name |-> name, module |-> module, names |-> names]

StmtImport == Stmt("Import", <<>>, <<>>, <<NameOs>>)               \* import os
StmtImportFrom == Stmt("ImportFrom", <<>>, NameSys, <<NameX, NameY>>) \* from sys import x, y
StmtDefM1 == Stmt("FunctionDef", NameM1, <<>>, <<>>)              \* def m1(): ...
StmtDefM2 == Stmt("FunctionDef", NameM2, <<>>, <<>>)              \* def m2(): ...
StmtClassC == Stmt("ClassDef", NameC, <<>>, <<>>)                 \* class C: ...
StmtPass == Stmt("Pass", <<>>, <<>>, <<>>)                        \* pass

Statements == {StmtImport, StmtImportFrom, StmtDefM1, StmtDefM2, StmtClassC, StmtPass}

-----------------------------------------------------------------------------
(* ast.parse and ast.walk *)

IsCompound(stmt) == stmt.kind \in {"FunctionDef", "ClassDef"}

\* Whether ast.parse accepts the text: no unexpected indent
SyntaxOK(src) ==
    \A i \in 1..Len(src) :
        IF i = 1 THEN src[i].depth = 0
        ELSE /\ src[i].depth <= src[i - 1].depth + 1
             /\ src[i].depth = src[i - 1].depth + 1 => IsCompound(src[i - 1].stmt)

\* The line whose body line j belongs to; 0 is the Module node
ParentLine(src, j) ==
    IF src[j].depth = 0 THEN 0
    ELSE CHOOSE i \in 1..(j - 1) :
            /\ src[i].depth = src[j].depth - 1
            /\ \A k \in (i + 1)..(j - 1) : src[k].depth >= src[j].depth

\* The body of node i: its statements in source order
BodyOf(src, i) ==
    SelectSeq([k \in 1..Len(src) |-> k], LAMBDA j : j > i /\ ParentLine(src, j) = i)

\* ast.parse(source.read()): the tree as a function from node to its fields; node 0 is
\* the Module, node i the statement of line i.  ok is FALSE for a SyntaxError.
ast_parse(src) ==
    IF ~SyntaxOK(src) THEN [ok |-> FALSE, tree |-> <<>>]
    ELSE [ok |-> TRUE,
          tree |-> [i \in 0..Len(src) |->
                     IF i = 0
                     THEN [kind |-> "Module", name |-> <<>>, module |-> <<>>,
                           names |-> <<>>, lineno |-> 0, body |-> BodyOf(src, 0)]
                     ELSE [kind |-> src[i].stmt.kind, name |-> src[i].stmt.name,
                           module |-> src[i].stmt.module, names |-> src[i].stmt.names,
                           lineno |-> i, body |-> BodyOf(src, i)]]]

iter_child_nodes(tree, node) == tree[node].body

\* ast.walk's loop: todo is a deque, popleft then extend with the node's children
RECURSIVE WalkLoop(_, _, _)
WalkLoop(tree, todo, yielded) ==
    IF todo = <<>> THEN yielded
    ELSE WalkLoop(tree,
                  Tail(todo) \o iter_child_nodes(tree, Head(todo)),
                  Append(yielded, Head(todo)))

\* A walk that descends into a node before it goes on to the node's next sibling
RECURSIVE WalkLoopDepthFirst(_, _, _)
WalkLoopDepthFirst(tree, todo, yielded) ==
    IF todo = <<>> THEN yielded
    ELSE WalkLoopDepthFirst(tree,
                            iter_child_nodes(tree, Head(todo)) \o Tail(todo),
                            Append(yielded, Head(todo)))

ast_walk_depth_first(tree) == WalkLoopDepthFirst(tree, <<0>>, <<>>)

\* A walk that stops at the module's own statements
ast_walk_top_level(tree) == <<0>> \o iter_child_nodes(tree, 0)

\* ast.walk(tree): the nodes in the order they are yielded
ast_walk(tree) == WalkLoop(tree, <<0>>, <<>>)

-----------------------------------------------------------------------------
(* analyze_python_file *)

TextImport == <<"i", "m", "p", "o", "r", "t", " ">>
TextFrom == <<"f", "r", "o", "m", " ">>
TextSpImport == <<" ", "i", "m", "p", "o", "r", "t", " ">>
TextCommaSp == <<",", " ">>
TextSyntaxErrorIn == <<"S", "y", "n", "t", "a", "x", " ", "e", "r", "r", "o", "r", " ", "i", "n", " ">>
TextColonSp == <<":", " ">>
TextInvalidSyntax == <<"i", "n", "v", "a", "l", "i", "d", " ", "s", "y", "n", "t", "a", "x">>

EmptyStructure == [imports |-> <<>>, functions |-> <<>>, classes |-> <<>>]

\* The body of the for loop over ast.walk(tree) for one node
VisitNode(structure, tree, node, exclude_imports) ==
    LET n == tree[node]
    IN  IF n.kind = "Import" /\ ~exclude_imports
        THEN [structure EXCEPT !.imports =
                 @ \o [k \in 1..Len(n.names) |-> TextImport \o n.names[k]]]
        ELSE IF n.kind = "ImportFrom" /\ ~exclude_imports
        THEN [structure EXCEPT !.imports =
                 Append(@, TextFrom \o n.module \o TextSpImport \o Join(n.names, TextCommaSp))]
        ELSE IF n.kind = "FunctionDef"
        THEN [structure EXCEPT !.functions = Append(@, n.name)]
        ELSE IF n.kind = "ClassDef"
        THEN LET body_defs == SelectSeq(n.body, LAMBDA c : tree[c].kind = "FunctionDef")
                 class_methods == [k \in 1..Len(body_defs) |-> tree[body_defs[k]].name]
             IN  [structure EXCEPT !.classes = DictSet(@, n.name, class_methods)]
        ELSE structure

RECURSIVE VisitAll(_, _, _, _)
VisitAll(structure, tree, nodes, exclude_imports) ==
    IF nodes = <<>> THEN structure
    ELSE VisitAll(VisitNode(structure, tree, Head(nodes), exclude_imports),
                  tree, Tail(nodes), exclude_imports)

\* del structure['imports']
DelImports(structure) == [k \in DOMAIN structure \ {"imports"} |-> structure[k]]

\* analyze_python_file with no except clause: the SyntaxError leaves the function
analyze_python_file_reraise(file, exclude_imports) ==
    IF file.state = "unopenable"
    THEN [exc |-> "OSError", structure |-> EmptyStructure, out |-> <<>>]
    ELSE IF file.state = "undecodable"
    THEN [exc |-> "UnicodeDecodeError", structure |-> EmptyStructure, out |-> <<>>]
    ELSE LET parsed == ast_parse(file.text)
         IN  IF ~parsed.ok
             THEN [exc |-> "SyntaxError", structure |-> EmptyStructure, out |-> <<>>]
             ELSE LET walked == VisitAll(EmptyStructure, parsed.tree,
                                         ast_walk(parsed.tree), exclude_imports)
                  IN  [exc |-> "none",
                       structure |-> IF exclude_imports THEN DelImports(walked) ELSE walked,
                       out |-> <<>>]

\* analyze_python_file(file_path, exclude_imports).  file is what file_path names: its
\* path, whether open() and read() succeed on it, and its text.  exc is the exception
\* that leaves the function ("none": it returns structure); out is what it prints.
analyze_python_file(file, exclude_imports) ==
    IF file.state = "unopenable"
    THEN [exc |-> "OSError", structure |-> EmptyStructure, out |-> <<>>]
    ELSE IF file.state = "undecodable"
    THEN [exc |-> "UnicodeDecodeError", structure |-> EmptyStructure, out |-> <<>>]
    ELSE LET parsed == ast_parse(file.text)
         IN  IF ~parsed.ok
             THEN [exc |-> "none", structure |-> EmptyStructure,
                   out |-> <<TextSyntaxErrorIn \o file.path \o TextColonSp \o TextInvalidSyntax>>]
             ELSE LET walked == VisitAll(EmptyStructure, parsed.tree,
                                         ast_walk(parsed.tree), exclude_imports)
                  IN  [exc |-> "none",
                       structure |-> IF exclude_imports THEN DelImports(walked) ELSE walked,
                       out |-> <<>>]

-----------------------------------------------------------------------------
(* parse_args *)

Choices == {"print", "dot"}

\* parse_args with no choices= on --output: any value is taken
parse_args_any_output(cmdline) ==
    [exit |-> FALSE,
     namespace |-> [directory |-> cmdline.directory,
                    exclude_imports |-> cmdline.exclude_imports,
                    output |-> cmdline.output,
                    func_symbol |-> cmdline.func_symbol,
                    class_symbol |-> cmdline.class_symbol]]

\* parse_args(): argparse leaves the program (SystemExit) on an --output value that is
\* not among the choices, and returns the namespace otherwise
parse_args(cmdline) ==
    IF cmdline.output \notin Choices
    THEN [exit |-> TRUE, namespace |-> <<>>]
    ELSE [exit |-> FALSE,
          namespace |-> [directory |-> cmdline.directory,
                         exclude_imports |-> cmdline.exclude_imports,
                         output |-> cmdline.output,
                         func_symbol |-> cmdline.func_symbol,
                         class_symbol |-> cmdline.class_symbol]]

-----------------------------------------------------------------------------
(* print_structure *)

TextNoStructure == <<"N", "o", " ", "s", "t", "r", "u", "c", "t", "u", "r", "e", " ",
                     "t", "o", " ", "p", "r", "i", "n", "t", ".">>
TextImportsColon == <<"I", "m", "p", "o", "r", "t", "s", ":">>
TextBullet == <<" ", " ", "-", " ">>
TextParens == <<"(", ")">>
TextIndent == <<" ", " ", " ", " ">>

RECURSIVE Flatten(_)
Flatten(seqs) == IF seqs = <<>> THEN <<>> ELSE Head(seqs) \o Flatten(Tail(seqs))

\* contents.get(key): the value, or None (here the empty sequence, as falsy as None)
Get(contents, key) == IF key \in DOMAIN contents THEN contents[key] ELSE <<>>

\* The lines of one class: its name, then its methods
ClassLinesOut(cls, methods, indent, class_symbol) ==
    <<indent \o class_symbol \o <<" ">> \o cls>>
    \o [k \in 1..Len(methods) |-> indent \o TextBullet \o methods[k] \o TextParens]

\* One turn of print_structure's loop up to, and without, the closing print()
FileBlockBody(file_path, contents, indent, func_symbol, class_symbol, exclude_imports) ==
    <<file_path \o <<":">>>>
    \o (IF Get(contents, "imports") # <<>> /\ ~exclude_imports
        THEN <<indent \o TextImportsColon>>
             \o [k \in 1..Len(contents.imports) |-> indent \o TextBullet \o contents.imports[k]]
        ELSE <<>>)
    \o [k \in 1..Len(Get(contents, "functions")) |->
           indent \o func_symbol \o <<" ">> \o Get(contents, "functions")[k] \o TextParens]
    \o Flatten([k \in 1..Len(Get(contents, "classes")) |->
                   ClassLinesOut(Get(contents, "classes")[k][1], Get(contents, "classes")[k][2],
                                 indent, class_symbol)])

\* A file's block with no blank line after it
FileBlockNoBlankLine(file_path, contents, indent, func_symbol, class_symbol, exclude_imports) ==
    FileBlockBody(file_path, contents, indent, func_symbol, class_symbol, exclude_imports)

\* One turn of print_structure's loop: the lines printed for one file.
\* exclude_imports is the module-level args.exclude_imports that the function reads.
FileBlock(file_path, contents, indent, func_symbol, class_symbol, exclude_imports) ==
    FileBlockBody(file_path, contents, indent, func_symbol, class_symbol, exclude_imports)
    \o << <<>> >>

\* print_structure(structure, indent, func_symbol, class_symbol): the lines it prints
print_structure(structure, indent, func_symbol, class_symbol, exclude_imports) ==
    IF structure = <<>> THEN <<TextNoStructure>>
    ELSE Flatten([k \in 1..Len(structure) |->
                     FileBlock(structure[k][1], structure[k][2], indent, func_symbol,
                               class_symbol, exclude_imports)])

-----------------------------------------------------------------------------
(* generate_dot *)

TextFunc == <<"_", "f", "u", "n", "c", "_">>
TextCls == <<"_", "c", "l", "s", "_">>
TextMeth == <<"_", "m", "e", "t", "h", "_">>

\* The attribute strings, written without the double quotes around the colours
FileAttrs == "fillcolor=lightblue, shape=box"
ClassAttrs == "fillcolor=lightgreen, shape=ellipse"
FunctionAttrs == "fillcolor=lightyellow, shape=note"

\* The four opening lines and the closing line
DotHeader == <<[stmt |-> "raw", text |-> "digraph G {"],
               [stmt |-> "raw", text |-> "rankdir=LR;"],
               [stmt |-> "raw", text |-> "node [style=filled, fontname=Helvetica];"],
               [stmt |-> "raw", text |-> "edge [arrowhead=none];"]>>
DotFooter == <<[stmt |-> "raw", text |-> "}"]>>

\* '    {id} [{attrs}, label="{label}"];'
NodeLine(id, attrs, label) == [stmt |-> "node", id |-> id, attrs |-> attrs, label |-> label]

\* '    {tail} -> {head};'
EdgeLine(tail, head) == [stmt |-> "edge", tail |-> tail, head |-> head]

\* file.replace('.', '_').replace('/', '_')
file_node_name(file) == Replace(Replace(file, ".", "_"), "/", "_")

func_node(file_node, func) == file_node \o TextFunc \o func

class_node(file_node, cls) == file_node \o TextCls \o cls

method_node(cls_node, method) == cls_node \o TextMeth \o method

\* The function's node without the edge from its file
FuncLinesNoEdge(file_node, func) ==
    <<NodeLine(func_node(file_node, func), FunctionAttrs, func \o TextParens)>>

\* One turn of the loop over content.get('functions', [])
FuncLines(file_node, func) ==
    <<NodeLine(func_node(file_node, func), FunctionAttrs, func \o TextParens),
      EdgeLine(file_node, func_node(file_node, func))>>

\* One turn of the loop over methods
MethodLines(cls_node, method) ==
    <<NodeLine(method_node(cls_node, method), FunctionAttrs, method \o TextParens),
      EdgeLine(cls_node, method_node(cls_node, method))>>

\* One turn of the loop over content.get('classes', {}).items()
ClassLinesDot(file_node, cls, methods) ==
    <<NodeLine(class_node(file_node, cls), ClassAttrs, cls),
      EdgeLine(file_node, class_node(file_node, cls))>>
    \o Flatten([k \in 1..Len(methods) |-> MethodLines(class_node(file_node, cls), methods[k])])

\* One turn of the loop over structure.items()
FileLinesDot(file, content) ==
    <<NodeLine(file_node_name(file), FileAttrs, file)>>
    \o Flatten([k \in 1..Len(Get(content, "functions")) |->
                   FuncLines(file_node_name(file), Get(content, "functions")[k])])
    \o Flatten([k \in 1..Len(Get(content, "classes")) |->
                   ClassLinesDot(file_node_name(file), Get(content, "classes")[k][1],
                                 Get(content, "classes")[k][2])])

\* generate_dot(structure): the lines that it joins with newlines
generate_dot(structure) ==
    DotHeader
    \o Flatten([k \in 1..Len(structure) |-> FileLinesDot(structure[k][1], structure[k][2])])
    \o DotFooter

-----------------------------------------------------------------------------
(* The script: parse_args, analyze_directory, one renderer *)

NoFile == "NoFile"
NoUnit == "NoUnit"
NoArgs == "NoArgs"

DirD == <<"d">>
SymbolF == <<"f", "n">>     \* stands for the default --func-symbol
SymbolC == <<"c", "l">>     \* stands for the default --class-symbol
HarnessPath == <<"t", ".", "p", "y">>

Namespace(directory, exclude_imports, output) ==
    [directory |-> directory, exclude_imports |-> exclude_imports, output |-> output,
     func_symbol |-> SymbolF, class_symbol |-> SymbolC]

TextDotPy == <<".", "p", "y">>
TextCreated == <<"D", "o", "t", " ", "f", "i", "l", "e", " ", "c", "r", "e", "a", "t", "e", "d",
                 " ", "a", "t", " ">>
TextStructureDot == <<"s", "t", "r", "u", "c", "t", "u", "r", "e", ".", "d", "o", "t">>

\* os.path.join(a, b) for a relative b
os_path_join(a, b) == IF a = <<>> THEN b ELSE a \o <<"/">> \o b

\* os.path.relpath(path, start) for a path below start
os_path_relpath(path, start) == SubSeq(path, Len(start) + 2, Len(path))

\* Where a file can be: the directory os.walk reports it in, relative to the scanned
\* directory, and its name
Locations ==
    {[dir |-> <<>>, name |-> <<"a", ".", "p", "y">>],
     [dir |-> <<>>, name |-> <<"b", ".", "p", "y">>],
     [dir |-> <<>>, name |-> <<"n", ".", "t", "x", "t">>],
     [dir |-> <<"p">>, name |-> <<"c", ".", "p", "y">>]}

\* import os / class C: / def m1 in it
TextValidA == <<[stmt |-> StmtImport, depth |-> 0], [stmt |-> StmtClassC, depth |-> 0],
                [stmt |-> StmtDefM1, depth |-> 1]>>
\* def m2
TextValidB == <<[stmt |-> StmtDefM2, depth |-> 0]>>
\* import os / an indented def m1: unexpected indent
TextBad == <<[stmt |-> StmtImport, depth |-> 0], [stmt |-> StmtDefM1, depth |-> 1]>>

\* What is in a file: whether it opens and decodes, and its text
Contents ==
    {[state |-> "ok", text |-> t] : t \in {TextValidA, TextValidB, TextBad}}
    \cup {[state |-> st, text |-> <<>>] : st \in {"unopenable", "undecodable"}}

\* What is in a file that is no Python source
OtherContent == [state |-> "ok", text |-> <<[stmt |-> Stmt("Prose", <<>>, <<>>, <<>>), depth |-> 0]>>]

Recognized(entry) == EndsWith(entry.name, TextDotPy)

\* root of the os.walk triple the entry comes from, and the two paths line 68-69 build
RootOf(entry) == os_path_join(args.directory, entry.dir)
FullPath(entry) == os_path_join(RootOf(entry), entry.name)
RelPath(entry) == os_path_relpath(FullPath(entry), args.directory)

Init ==
    /\ argv \in {Namespace(DirD, b, o) : b \in BOOLEAN, o \in {"print", "dot", "json"}}
    /\ walk = <<>>
    /\ pc = "start"
    /\ args = NoArgs
    /\ idx = 0
    /\ module_structure = <<>>
    /\ stdout = <<>>
    /\ dot_file = NoFile
    /\ opened = 0
    /\ text = <<>>
    /\ unit = NoUnit
    /\ printed = <<>>
    /\ dotted = <<>>

\* Before the script runs, the tree gets one more file.  os.walk is top-down: the
\* files of the scanned directory itself come before those of its subdirectories.
AddFile ==
    /\ pc = "start"
    /\ Len(walk) < MaxFiles
    /\ \E loc \in Locations, c \in Contents \cup {OtherContent} :
          /\ \A i \in 1..Len(walk) : <<walk[i].dir, walk[i].name>> # <<loc.dir, loc.name>>
          /\ walk # <<>> /\ walk[Len(walk)].dir # <<>> => loc.dir # <<>>
          /\ c = OtherContent <=> ~EndsWith(loc.name, TextDotPy)
          /\ walk' = Append(walk, [dir |-> loc.dir, name |-> loc.name,
                                   state |-> c.state, text |-> c.text])
    /\ UNCHANGED <<argv, pc, args, idx, module_structure, stdout, dot_file, opened,
                   text, unit, printed, dotted>>

\* args = parse_args(), and the first line of analyze_directory
ParseArgs ==
    /\ pc = "start"
    /\ LET r == parse_args(argv)
       IN  IF r.exit
           THEN /\ pc' = "exit"
                /\ UNCHANGED <<args, idx>>
           ELSE /\ args' = r.namespace
                /\ idx' = 1
                /\ pc' = "walk"
    /\ UNCHANGED <<argv, walk, module_structure, stdout, dot_file, opened,
                   text, unit, printed, dotted>>

\* One turn of analyze_directory's inner loop: a file that does not end in .py is
\* passed over; a file that does is analysed and entered under its relative path, and
\* an exception that leaves analyze_python_file leaves analyze_directory and the script.
AnalyzeNextFile ==
    /\ pc = "walk"
    /\ idx <= Len(walk)
    /\ LET entry == walk[idx]
           r == analyze_python_file([path |-> FullPath(entry), state |-> entry.state,
                                     text |-> entry.text], args.exclude_imports)
       IN  IF ~Recognized(entry)
           THEN /\ idx' = idx + 1
                /\ UNCHANGED <<pc, module_structure, stdout, opened>>
           ELSE IF r.exc # "none"
           THEN /\ pc' = "raised"
                /\ opened' = opened + 1
                /\ UNCHANGED <<idx, module_structure, stdout>>
           ELSE /\ module_structure' = DictSet(module_structure, RelPath(entry), r.structure)
                /\ stdout' = stdout \o r.out
                /\ opened' = opened + 1
                /\ idx' = idx + 1
                /\ pc' = pc
    /\ UNCHANGED <<argv, walk, args, dot_file, text, unit, printed, dotted>>

\* return structure
ReturnStructure ==
    /\ pc = "walk"
    /\ idx = Len(walk) + 1
    /\ pc' = "returned"
    /\ UNCHANGED <<argv, walk, args, idx, module_structure, stdout, dot_file, opened,
                   text, unit, printed, dotted>>

\* The branch args.output == 'print'
RenderPrint ==
    /\ pc = "returned"
    /\ args.output = "print"
    /\ stdout' = stdout \o <<args.directory \o <<"/">>>>
                        \o print_structure(module_structure, TextIndent, args.func_symbol,
                                           args.class_symbol, args.exclude_imports)
    /\ pc' = "done"
    /\ UNCHANGED <<argv, walk, args, idx, module_structure, dot_file, opened,
                   text, unit, printed, dotted>>

\* The branch args.output == 'dot'
RenderDot ==
    /\ pc = "returned"
    /\ args.output = "dot"
    /\ dot_file' = generate_dot(module_structure)
    /\ stdout' = Append(stdout, TextCreated \o os_path_join(args.directory, TextStructureDot))
    /\ pc' = "done"
    /\ UNCHANGED <<argv, walk, args, idx, module_structure, opened,
                   text, unit, printed, dotted>>

Next == AddFile \/ ParseArgs \/ AnalyzeNextFile \/ ReturnStructure \/ RenderPrint \/ RenderDot

Spec == Init /\ [][Next]_vars

-----------------------------------------------------------------------------
(* Claims about the script *)

HasSyntaxError(entry) == entry.state = "ok" /\ ~SyntaxOK(entry.text)

Parses(entry) == entry.state = "ok" /\ SyntaxOK(entry.text)

Analysing == pc \in {"walk", "raised", "returned", "done"}

\* The relative paths of the recognized files among the first n that os.walk yields
RECURSIVE RecognizedPaths(_)
RecognizedPaths(n) ==
    IF n = 0 THEN <<>>
    ELSE IF Recognized(walk[n]) THEN Append(RecognizedPaths(n - 1), RelPath(walk[n]))
    ELSE RecognizedPaths(n - 1)

\* C1: a file with a syntax error never makes the aggregation raise; every recognized
\* file the walk has passed has its entry under its relative path, the entry of a
\* file with a syntax error has functions = [] and classes = {} (and imports = [] when
\* imports are enabled); and when analyze_directory has returned, the walk has passed
\* every file, those before and those after the file with the syntax error.
C1_SyntaxErrorContained ==
    Analysing =>
        /\ pc = "raised" => ~HasSyntaxError(walk[idx])
        /\ pc \in {"returned", "done"} => idx = Len(walk) + 1
        /\ \A i \in 1..(idx - 1) :
              Recognized(walk[i]) =>
                  /\ RelPath(walk[i]) \in DictKeys(module_structure)
                  /\ HasSyntaxError(walk[i]) =>
                        LET entry == DictGet(module_structure, RelPath(walk[i]))
                        IN  /\ entry.functions = <<>>
                            /\ entry.classes = <<>>
                            /\ ~args.exclude_imports =>
                                  "imports" \in DOMAIN entry /\ entry.imports = <<>>

\* analyze_directory has returned a model of three files, the second of them a file
\* with a syntax error
C1_Witness ==
    /\ pc = "returned"
    /\ Len(walk) = 3
    /\ \A i \in 1..3 : Recognized(walk[i])
    /\ Parses(walk[1]) /\ HasSyntaxError(walk[2]) /\ Parses(walk[3])
    /\ Len(module_structure) = 3
    /\ module_structure[2][1] = RelPath(walk[2])
    /\ module_structure[2][2].functions = <<>>

\* C3: a recognized file that cannot be opened or decoded never aborts the batch:
\* analyze_directory goes on to the remaining files and returns a model.
C3_ReadFailureContained ==
    /\ pc # "raised"
    /\ pc \in {"returned", "done"} => idx = Len(walk) + 1

\* C8: for a tree whose recognized files are all valid, the print run's output after
\* the directory line has one block per recognized file, in discovery order: as many
\* blank lines as recognized files, each block begins with its file's header line
\* and ends with the one blank line, and there is no block when there is no file.
C8_OneBlockPerFile ==
    pc = "done" /\ args.output = "print"
        /\ (\A i \in 1..Len(walk) : Recognized(walk[i]) => Parses(walk[i])) =>
        LET body == Tail(stdout)
            files == RecognizedPaths(Len(walk))
            blanks == SelectSeq([k \in 1..Len(body) |-> k], LAMBDA q : body[q] = <<>>)
            first(k) == IF k = 1 THEN 1 ELSE blanks[k - 1] + 1
        IN  /\ stdout[1] = args.directory \o <<"/">>
            /\ Len(blanks) = Len(files)
            /\ files = <<>> => body = <<TextNoStructure>>
            /\ files # <<>> => blanks[Len(blanks)] = Len(body)
            /\ \A k \in 1..Len(files) :
                  /\ first(k) < blanks[k]
                  /\ body[first(k)] = files[k] \o <<":">>

\* A print run over two valid recognized files, with a file in between that is not
\* recognized
C8_Witness ==
    /\ pc = "done"
    /\ args.output = "print"
    /\ Len(walk) = 3
    /\ Recognized(walk[1]) /\ ~Recognized(walk[2]) /\ Recognized(walk[3])
    /\ Parses(walk[1]) /\ Parses(walk[3])
    /\ walk[1].text # walk[3].text
    /\ Cardinality({q \in 1..Len(stdout) : stdout[q] = <<>>}) = 2

\* C10: in a run with an --output value other than 'print' and 'dot', no source file
\* is ever opened, nothing is printed, no dot file is written and no model is built:
\* the run gets no further than the rejection in parse_args.
C10_RejectedBeforeAnyRead ==
    argv.output \notin {"print", "dot"} =>
        /\ pc \in {"start", "exit"}
        /\ opened = 0
        /\ stdout = <<>>
        /\ dot_file = NoFile
        /\ module_structure = <<>>

\* The run was rejected, over a tree with a recognized file in it
C10_Witness ==
    /\ pc = "exit"
    /\ argv.output = "json"
    /\ \E i \in 1..Len(walk) : Recognized(walk[i]) /\ Parses(walk[i])

-----------------------------------------------------------------------------
(* The parser harness: analyze_python_file applied to one source text *)

InitParse ==
    /\ text = <<>>
    /\ args \in {Namespace(DirD, b, "print") : b \in BOOLEAN}
    /\ pc = "parse_call"
    /\ unit = NoUnit
    /\ argv = NoArgs
    /\ walk = <<>>
    /\ idx = 0
    /\ module_structure = <<>>
    /\ stdout = <<>>
    /\ dot_file = NoFile
    /\ opened = 0
    /\ printed = <<>>
    /\ dotted = <<>>

\* The file gets one more line: a statement, indented at most one level deeper than
\* the line before it (the first line not at all).  Indenting under a simple statement
\* is possible here and is a syntax error.
WriteLine ==
    /\ pc = "parse_call"
    /\ Len(text) < MaxLines
    /\ \E s \in Statements, d \in 0..MaxDepth :
          /\ d <= (IF text = <<>> THEN 0 ELSE text[Len(text)].depth + 1)
          /\ text' = Append(text, [stmt |-> s, depth |-> d])
    /\ UNCHANGED <<argv, walk, pc, args, idx, module_structure, stdout, dot_file, opened,
                   unit, printed, dotted>>

\* One call analyze_python_file(file_path, exclude_imports) on a file that opens
ParseFile ==
    /\ pc = "parse_call"
    /\ LET r == analyze_python_file([path |-> HarnessPath, state |-> "ok", text |-> text],
                                    args.exclude_imports)
       IN  /\ unit' = r.structure
           /\ stdout' = stdout \o r.out
    /\ opened' = opened + 1
    /\ pc' = "parse_return"
    /\ UNCHANGED <<argv, walk, args, idx, module_structure, dot_file, text, printed, dotted>>

NextParse == WriteLine \/ ParseFile

SpecParse == InitParse /\ [][NextParse]_vars

-----------------------------------------------------------------------------
(* Claims about the parser *)

Returned == pc = "parse_return"

LinesOf(src, kind) == {i \in 1..Len(src) : src[i].stmt.kind = kind}

Count(s, x) == Cardinality({i \in 1..Len(s) : s[i] = x})

\* The names of the function definitions written directly in the body of line i, in
\* source order, read off the indentation alone
DirectMethods(src, i) ==
    LET direct == SelectSeq([k \in 1..Len(src) |-> k],
                            LAMBDA j : /\ j > i
                                       /\ src[j].stmt.kind = "FunctionDef"
                                       /\ src[j].depth = src[i].depth + 1
                                       /\ \A k \in (i + 1)..j : src[k].depth > src[i].depth)
    IN  [k \in 1..Len(direct) |-> src[direct[k]].stmt.name]

ClassNamesOf(src) == {src[i].stmt.name : i \in LinesOf(src, "ClassDef")}

ClassLines(src, name) == {i \in LinesOf(src, "ClassDef") : src[i].stmt.name = name}

\* Among the class definitions named name, the one declared last in the file
LastDeclared(src, name) ==
    CHOOSE i \in ClassLines(src, name) : \A j \in ClassLines(src, name) : j <= i

\* Among the class definitions named name, the deepest one, and among the equally
\* deep ones the one declared last
DeepestLastDeclared(src, name) ==
    CHOOSE i \in ClassLines(src, name) :
        \A j \in ClassLines(src, name) :
            \/ src[j].depth < src[i].depth
            \/ src[j].depth = src[i].depth /\ j <= i

\* C2: the returned unit has an 'imports' field exactly when exclude_imports is
\* false, for every input file, the files whose parse fails included.
C2_ImportsFieldFollowsFlag ==
    Returned => (("imports" \in DOMAIN unit) <=> ~args.exclude_imports)

\* C4 as stated: classes maps every class name of a valid file to the direct child
\* function definitions, in source order, of the class of that name that is declared
\* last in the file, at whatever depth the definitions of that name are nested.
C4_LastDeclaredClassWins ==
    Returned /\ SyntaxOK(text) =>
        /\ DictKeys(unit.classes) = ClassNamesOf(text)
        /\ \A name \in ClassNamesOf(text) :
              DictGet(unit.classes, name) = DirectMethods(text, LastDeclared(text, name))

\* C4 as amended: classes maps every class name of a valid file to the direct child
\* function definitions, in source order, of the class of that name that the
\* breadth-first walk visits last: the most deeply nested one, and among equally
\* deep ones the one declared last in the file.
C4_LastVisitedClassWins ==
    Returned /\ SyntaxOK(text) =>
        /\ DictKeys(unit.classes) = ClassNamesOf(text)
        /\ \A name \in ClassNamesOf(text) :
              DictGet(unit.classes, name) =
                  DirectMethods(text, DeepestLastDeclared(text, name))

\* Two classes of one name, the earlier nested deeper than the later, with different
\* method lists; the entry is the earlier one's list
C4_Witness ==
    /\ Returned
    /\ SyntaxOK(text)
    /\ \E i, j \in ClassLines(text, NameC) :
          /\ i < j
          /\ text[i].depth > text[j].depth
          /\ DirectMethods(text, j) # <<>>
          /\ DirectMethods(text, i) # DirectMethods(text, j)
          /\ unit.classes = <<<<NameC, DirectMethods(text, i)>>>>

\* C5: for a valid file, functions has one entry per function-definition node of the
\* tree at any depth (as many entries of each name as there are definitions of that
\* name, so as many entries as definitions), and every method listed under a class
\* is in functions too.
C5_FunctionsListsEveryDef ==
    Returned /\ SyntaxOK(text) =>
        /\ Len(unit.functions) = Cardinality(LinesOf(text, "FunctionDef"))
        /\ \A name \in {NameM1, NameM2} :
              Count(unit.functions, name) =
                  Cardinality({i \in LinesOf(text, "FunctionDef") : text[i].stmt.name = name})
        /\ \A k \in 1..Len(unit.classes) :
              Range(unit.classes[k][2]) \subseteq Range(unit.functions)

\* A class with a method that has a function nested in it: both are in functions
C5_Witness ==
    /\ Returned
    /\ SyntaxOK(text)
    /\ \E i \in 1..Len(text) :
          /\ i + 2 <= Len(text)
          /\ text[i].stmt.kind = "ClassDef"
          /\ text[i + 1].stmt = StmtDefM1 /\ text[i + 1].depth = text[i].depth + 1
          /\ text[i + 2].stmt = StmtDefM2 /\ text[i + 2].depth = text[i].depth + 2
    /\ Len(unit.functions) = 2
    /\ unit.classes = <<<<NameC, <<NameM1>>>>>>

-----------------------------------------------------------------------------
(* The renderer harness: print_structure and generate_dot called on one model *)

NameF == <<"f">>
PathSlash == <<"a", "/", "b", ".", "p", "y">>      \* a/b.py
PathUnder == <<"a", "_", "b", ".", "p", "y">>      \* a_b.py

RenderPaths == {PathSlash, PathUnder}

\* The classes dicts: no class, or class C with some methods m1
RenderClasses ==
    {<<>>} \cup {<<<<NameC, ms>>>> : ms \in SeqsUpTo({NameM1}, MaxMethods)}

\* The units: functions and classes always there, imports there or deleted
RenderUnits ==
    {[functions |-> fs, classes |-> cs] :
        fs \in SeqsUpTo({NameF, NameM1}, MaxFuncs), cs \in RenderClasses}
    \cup {[imports |-> <<TextImport \o NameOs>>, functions |-> fs, classes |-> cs] :
        fs \in SeqsUpTo({NameF, NameM1}, MaxFuncs), cs \in RenderClasses}

\* The models: dicts from distinct relative paths to units
RenderModels ==
    {<<>>}
    \cup {<<<<p, u>>>> : p \in RenderPaths, u \in RenderUnits}
    \cup {m \in {<<<<p, u>>, <<q, v>>>> :
                    p \in RenderPaths, q \in RenderPaths, u \in RenderUnits, v \in RenderUnits} :
            m[1][1] # m[2][1]}

InitRender ==
    /\ module_structure \in RenderModels
    /\ args \in {Namespace(DirD, b, "print") : b \in BOOLEAN}
    /\ pc = "render_call"
    /\ printed = <<>>
    /\ dotted = <<>>
    /\ argv = NoArgs
    /\ walk = <<>>
    /\ idx = 0
    /\ stdout = <<>>
    /\ dot_file = NoFile
    /\ opened = 0
    /\ text = <<>>
    /\ unit = NoUnit

\* A print_structure whose loop takes the imports out of each unit as it prints them
\* (contents.pop('imports', None) in place of contents.get('imports'))
CallPrintStructureConsuming ==
    /\ pc = "render_call"
    /\ Len(printed) < MaxCalls
    /\ printed' = Append(printed,
                         [model |-> module_structure,
                          out |-> print_structure(module_structure, TextIndent, args.func_symbol,
                                                  args.class_symbol, args.exclude_imports)])
    /\ module_structure' = [k \in 1..Len(module_structure) |->
                               <<module_structure[k][1], DelImports(module_structure[k][2])>>]
    /\ UNCHANGED <<argv, walk, pc, args, idx, stdout, dot_file, opened, text, unit, dotted>>

\* One call print_structure(module_structure, ...): the model it is given and the
\* lines it prints are logged; the function assigns to nothing in the model
CallPrintStructure ==
    /\ pc = "render_call"
    /\ Len(printed) < MaxCalls
    /\ printed' = Append(printed,
                         [model |-> module_structure,
                          out |-> print_structure(module_structure, TextIndent, args.func_symbol,
                                                  args.class_symbol, args.exclude_imports)])
    /\ UNCHANGED <<argv, walk, pc, args, idx, module_structure, stdout, dot_file, opened,
                   text, unit, dotted>>

\* One call generate_dot(module_structure), logged in the same way
CallGenerateDot ==
    /\ pc = "render_call"
    /\ Len(dotted) < MaxCalls
    /\ dotted' = Append(dotted, [model |-> module_structure,
                                 out |-> generate_dot(module_structure)])
    /\ UNCHANGED <<argv, walk, pc, args, idx, module_structure, stdout, dot_file, opened,
                   text, unit, printed>>

NextRender == CallPrintStructure \/ CallGenerateDot

SpecRender == InitRender /\ [][NextRender]_vars

-----------------------------------------------------------------------------
(* Claims about the renderers *)

RECURSIVE SumSeq(_)
SumSeq(ns) == IF ns = <<>> THEN 0 ELSE Head(ns) + SumSeq(Tail(ns))

FunctionEntries(model) == SumSeq([k \in 1..Len(model) |-> Len(model[k][2].functions)])

ClassEntries(model) == SumSeq([k \in 1..Len(model) |-> Len(model[k][2].classes)])

MethodEntries(model) ==
    SumSeq([k \in 1..Len(model) |->
               SumSeq([c \in 1..Len(model[k][2].classes) |-> Len(model[k][2].classes[c][2])])])

LinesWhere(out, Test(_)) == {q \in 1..Len(out) : Test(out[q])}

NodeDecls(out) == LinesWhere(out, LAMBDA l : l.stmt = "node")

EdgeDecls(out) == LinesWhere(out, LAMBDA l : l.stmt = "edge")

\* C6: generate_dot's output declares one node per file, per entry of a functions
\* list, per class and per method, and one edge per function entry, class and method
\* (so edges = nodes - files), each edge right after the declaration of the node it
\* leads to and from a node declared before; one file with one function and one class
\* with one method gives 4 nodes and 3 edges; the only arrowhead setting is the
\* graph-wide arrowhead=none, which no edge overrides.
C6_NodesAndEdges ==
    \A c \in 1..Len(dotted) :
        LET out == dotted[c].out
            model == dotted[c].model
        IN  /\ Cardinality(LinesWhere(out, LAMBDA l : l.stmt = "node" /\ l.attrs = FileAttrs))
                  = Len(model)
            /\ \A k \in 1..Len(model) :
                  Cardinality(LinesWhere(out, LAMBDA l : /\ l.stmt = "node"
                                                         /\ l.attrs = FileAttrs
                                                         /\ l.label = model[k][1])) = 1
            /\ Cardinality(LinesWhere(out, LAMBDA l : l.stmt = "node" /\ l.attrs = ClassAttrs))
                  = ClassEntries(model)
            /\ Cardinality(LinesWhere(out, LAMBDA l : l.stmt = "node" /\ l.attrs = FunctionAttrs))
                  = FunctionEntries(model) + MethodEntries(model)
            /\ Cardinality(NodeDecls(out))
                  = Len(model) + FunctionEntries(model) + ClassEntries(model) + MethodEntries(model)
            /\ Cardinality(EdgeDecls(out)) = Cardinality(NodeDecls(out)) - Len(model)
            /\ Cardinality(EdgeDecls(out))
                  = FunctionEntries(model) + ClassEntries(model) + MethodEntries(model)
            /\ \A q \in EdgeDecls(out) :
                  /\ DOMAIN out[q] = {"stmt", "tail", "head"}
                  /\ out[q - 1].stmt = "node" /\ out[q - 1].id = out[q].head
                  /\ \E r \in NodeDecls(out) : r < q - 1 /\ out[r].id = out[q].tail
            /\ out[4] = [stmt |-> "raw", text |-> "edge [arrowhead=none];"]
            /\ LinesWhere(out, LAMBDA l : l.stmt = "raw") = {1, 2, 3, 4, Len(out)}
            /\ (/\ Len(model) = 1
                /\ Len(model[1][2].functions) = 1
                /\ Len(model[1][2].classes) = 1
                /\ Len(model[1][2].classes[1][2]) = 1)
               => Cardinality(NodeDecls(out)) = 4 /\ Cardinality(EdgeDecls(out)) = 3

\* generate_dot has rendered the model of one file with one function and one class
\* with one method
C6_Witness ==
    /\ dotted # <<>>
    /\ dotted[1].model =
          <<<<PathSlash, [functions |-> <<NameF>>, classes |-> <<<<NameC, <<NameM1>>>>>>]>>>>
    /\ Cardinality(NodeDecls(dotted[1].out)) = 4
    /\ Cardinality(EdgeDecls(dotted[1].out)) = 3

\* The nodes of a model: its files, and the functions, classes and methods by owner
ModelNodes(model) ==
    UNION {{<<"file", model[k][1]>>}
           \cup {<<"func", model[k][1], f>> : f \in Range(model[k][2].functions)}
           \cup {<<"cls", model[k][1], model[k][2].classes[c][1]>> :
                    c \in 1..Len(model[k][2].classes)}
           \cup UNION {{<<"meth", model[k][1], model[k][2].classes[c][1], m>> :
                           m \in Range(model[k][2].classes[c][2])} :
                       c \in 1..Len(model[k][2].classes)} :
           k \in 1..Len(model)}

\* The identifier generate_dot derives for a node
NodeId(node) ==
    IF node[1] = "file" THEN file_node_name(node[2])
    ELSE IF node[1] = "func" THEN func_node(file_node_name(node[2]), node[3])
    ELSE IF node[1] = "cls" THEN class_node(file_node_name(node[2]), node[3])
    ELSE method_node(class_node(file_node_name(node[2]), node[3]), node[4])

\* C7: in one run of generate_dot any two distinct nodes of the model get different
\* identifiers, and the identifiers it declares are those of the model's nodes.
C7_NodeIdsCollisionFree ==
    \A c \in 1..Len(dotted) :
        /\ {dotted[c].out[q].id : q \in NodeDecls(dotted[c].out)}
              = {NodeId(n) : n \in ModelNodes(dotted[c].model)}
        /\ \A n1, n2 \in ModelNodes(dotted[c].model) : n1 # n2 => NodeId(n1) # NodeId(n2)

====
